---- MODULE Spec2Model ----
(***************************************************************************)
(* middleman (src/app.py): a FastAPI relay in front of one SQLite file.    *)
(* The state is the four tables of init_db together with the three         *)
(* sqlite_sequence counters AUTOINCREMENT keeps; every request handler     *)
(* runs one SQLite write transaction (execute, commit) or one SELECT, and  *)
(* SQLite serialises write transactions, so one handler is one step.       *)
(***************************************************************************)
EXTENDS Integers, Sequences, FiniteSets, TLC

VARIABLES
    commands,       \* rows of table commands
    cmd_seq,        \* sqlite_sequence row of commands (AUTOINCREMENT)
    deaths,         \* rows of table deaths
    death_seq,      \* sqlite_sequence row of deaths (AUTOINCREMENT)
    mod_actions,    \* rows of table mod_actions
    mod_seq,        \* sqlite_sequence row of mod_actions (AUTOINCREMENT)
    player_states,  \* rows of table player_states
    last,           \* the request served last and the response it got
    issued,         \* history: every id a commands row was ever given
    acked,          \* history: every id named by a completed /commands/ack
    retired,        \* history: ids named by an ack when already issued
    lastDeath,      \* history: instance_id -> the latest /death call for it
    lastUpsert,     \* history: player -> the latest accepted /player/state call
    ingestOrder,    \* history: instance_ids, latest recorded first
    agentSeen,      \* the polling agent: every id a poll has handed to it
    batch,          \* the polling agent: ids received and not yet acknowledged
    delivered       \* history: ids of commands a poll has handed to the agent

vars == <<commands, cmd_seq, deaths, death_seq, mod_actions, mod_seq,
          player_states, last, issued, acked, retired, lastDeath,
          lastUpsert, ingestOrder, agentSeen, batch, delivered>>

\* what the request handlers never touch: the agent's memory and the
\* histories kept beside the handlers
outside == <<lastUpsert, ingestOrder, agentSeen, batch, delivered>>

db == <<commands, cmd_seq, deaths, death_seq, mod_actions, mod_seq, player_states>>
queueHist == <<issued, acked, retired>>

----------------------------------------------------------------------------
(* Bounds of the exploration *)

MaxCmdId == 3
MaxDeathId == 3
MaxModId == 1
MaxFullCmdId == 2
MaxFullDeathId == 1
MaxAgentCmdId == 3

----------------------------------------------------------------------------
(* Python / SQL values *)

\* Optional[T]: None is the empty tuple, a present value v is <<v>>
None == << >>
Some(v) == <<v>>

ADMIN_TOKEN == "changeme"

SetMax(S) == IF S = {} THEN 0 ELSE CHOOSE m \in S : \A x \in S : x <= m

Min(a, b) == IF a <= b THEN a ELSE b

\* a mapping has the key (pydantic: the required field is present)
Has(body, k) == k \in DOMAIN body

\* json.dumps of a command payload: the pairs in the dict's insertion order
json_dumps(payload) ==
    IF Has(payload, "amount")
    THEN << <<"player", payload.player>>, <<"amount", payload.amount>> >>
    ELSE << <<"player", payload.player>> >>

\* json.loads: the mapping the pairs spell out
json_loads(text) ==
    [k \in {text[i][1] : i \in DOMAIN text} |->
        LET i == CHOOSE j \in DOMAIN text : text[j][1] = k IN text[i][2]]

\* INTEGER PRIMARY KEY AUTOINCREMENT: one more than the largest rowid the
\* table ever held (sqlite_sequence) or holds now
NextRowidReuse(seq, rows) == SetMax({r.id : r \in rows}) + 1
NextRowid(seq, rows) == SetMax({seq} \cup {r.id : r \in rows}) + 1

\* ORDER BY id ASC
RECURSIVE OrderByIdAsc(_)
OrderByIdAsc(rows) ==
    IF rows = {} THEN << >>
    ELSE LET r == CHOOSE x \in rows : \A y \in rows : x.id <= y.id
         IN <<r>> \o OrderByIdAsc(rows \ {r})

\* ORDER BY id DESC
RECURSIVE OrderByIdDesc(_)
OrderByIdDesc(rows) ==
    IF rows = {} THEN << >>
    ELSE LET r == CHOOSE x \in rows : \A y \in rows : x.id >= y.id
         IN <<r>> \o OrderByIdDesc(rows \ {r})

\* LIMIT n: the first n rows; a negative n is no limit (SQLite)
Limit(rows, n) == IF n < 0 THEN rows ELSE SubSeq(rows, 1, Min(n, Len(rows)))

\* OFFSET n: the rows after the first n; a negative n skips nothing
Offset(rows, n) == IF n <= 0 THEN rows ELSE SubSeq(rows, Min(n, Len(rows)) + 1, Len(rows))

----------------------------------------------------------------------------
(* Requests and responses *)

Response(op, req, status, out) == [op |-> op, req |-> req, status |-> status, out |-> out]

\* the response of an endpoint behind Depends(require_admin), with the
\* X-Admin-Token header the request carried
GatedResponse(op, token, req, status, out) ==
    [op |-> op, token |-> token, req |-> req, status |-> status, out |-> out]

require_admin_any_token(x_admin_token) == x_admin_token # ""
require_admin(x_admin_token) == x_admin_token = ADMIN_TOKEN

----------------------------------------------------------------------------
(* Command queue *)

\* async with aiosqlite.connect(...): execute, commit. A fault raised by
\* execute or by commit leaves the block with the transaction uncommitted,
\* and closing the connection rolls it back
TxOutcomeAutocommit(before, after, fault) ==
    IF fault \in {"none", "commit"} THEN after ELSE before
TxOutcome(before, after, fault) == IF fault = "none" THEN after ELSE before

\* enqueue_command: INSERT INTO commands(time, command, payload_json); commit
enqueue_command(command, payload, when, fault) ==
    LET id == NextRowid(cmd_seq, commands) IN
    /\ commands' = TxOutcome(commands, commands \cup
          {[id |-> id, time |-> when, command |-> command,
            payload_json |-> json_dumps(payload)]}, fault)
    /\ cmd_seq' = TxOutcome(cmd_seq, id, fault)
    /\ issued' = issued \cup {r.id : r \in commands' \ commands}
    /\ UNCHANGED <<acked, retired>>

\* the handler's answer: its return value, or the 500 of an exception
\* raised inside enqueue_command
EnqueueResponse(command, token, body, fault) ==
    IF fault = "none"
    THEN GatedResponse(command, token, body, 200, "ok")
    ELSE GatedResponse(command, token, body, 500, "store error")

\* the four endpoints taking StrikeActionIn, and /command/restore
StrikeEndpoint(command, token, body, when, fault) ==
    /\ IF ~require_admin(token)
       THEN /\ last' = GatedResponse(command, token, body, 401, "unauthorized")
            /\ UNCHANGED <<commands, cmd_seq, queueHist>>
       ELSE IF ~Has(body, "player")
       THEN /\ last' = GatedResponse(command, token, body, 422, "validation")
            /\ UNCHANGED <<commands, cmd_seq, queueHist>>
       ELSE /\ enqueue_command(command, [player |-> body.player], when, fault)
            /\ last' = EnqueueResponse(command, token, body, fault)
    /\ UNCHANGED <<deaths, death_seq, mod_actions, mod_seq, player_states, lastDeath>>

command_restore(token, body, when, fault) ==
    /\ IF ~require_admin(token)
       THEN /\ last' = GatedResponse("restore", token, body, 401, "unauthorized")
            /\ UNCHANGED <<commands, cmd_seq, queueHist>>
       ELSE IF ~(Has(body, "player") /\ Has(body, "amount"))
       THEN /\ last' = GatedResponse("restore", token, body, 422, "validation")
            /\ UNCHANGED <<commands, cmd_seq, queueHist>>
       ELSE /\ enqueue_command("restore",
                   [player |-> body.player, amount |-> body.amount], when, fault)
            /\ last' = EnqueueResponse("restore", token, body, fault)
    /\ UNCHANGED <<deaths, death_seq, mod_actions, mod_seq, player_states, lastDeath>>

command_strike(token, body, when, fault) == StrikeEndpoint("strike", token, body, when, fault)
command_ban(token, body, when, fault) == StrikeEndpoint("ban", token, body, when, fault)
command_unban(token, body, when, fault) == StrikeEndpoint("unban", token, body, when, fault)
command_kick(token, body, when, fault) == StrikeEndpoint("kick", token, body, when, fault)

\* the loop of poll_commands over the fetched rows
CommandQueueItem(r) ==
    [id |-> r.id, command |-> r.command,
     payload |-> IF r.payload_json # << >> THEN json_loads(r.payload_json) ELSE << >>]

\* SELECT ... FROM commands ORDER BY id ASC LIMIT ?
PollRowsNewestFirst(rows, limit) == Limit(OrderByIdDesc(rows), limit)
PollRows(rows, limit) == Limit(OrderByIdAsc(rows), limit)

PollResults(rows, limit) ==
    LET fetched == PollRows(rows, limit)
    IN [i \in DOMAIN fetched |-> CommandQueueItem(fetched[i])]

\* a destructive read: the rows handed out are deleted
poll_commands_pop(limit) ==
    /\ last' = Response("poll", limit, 200, PollResults(commands, limit))
    /\ commands' = commands \ {PollRows(commands, limit)[i] : i \in DOMAIN PollRows(commands, limit)}
    /\ UNCHANGED <<cmd_seq, deaths, death_seq, mod_actions, mod_seq,
                   player_states, queueHist, lastDeath>>

poll_commands(limit) ==
    /\ last' = Response("poll", limit, 200, PollResults(commands, limit))
    /\ UNCHANGED <<db, queueHist, lastDeath>>

\* DELETE FROM commands WHERE id IN (...)
DeleteWhereIdInUncommitted(rows, ids) == rows
DeleteWhereIdInUpTo(rows, ids) == {r \in rows : r.id > SetMax(ids)}
DeleteWhereIdIn(rows, ids) == {r \in rows : r.id \notin ids}

ack_commands(ids) ==
    /\ IF ids = {}
       THEN UNCHANGED commands
       ELSE commands' = DeleteWhereIdIn(commands, ids)
    /\ last' = Response("ack", ids, 200, "ok")
    /\ acked' = acked \cup ids
    /\ retired' = retired \cup (ids \cap issued)
    /\ UNCHANGED <<cmd_seq, issued, deaths, death_seq, mod_actions, mod_seq,
                   player_states, lastDeath>>

\* on_startup -> init_db: CREATE TABLE IF NOT EXISTS leaves existing tables
\* alone; the process keeps nothing in memory between requests
on_startup ==
    /\ last' = Response("startup", None, 200, "ok")
    /\ UNCHANGED <<db, queueHist, lastDeath>>

----------------------------------------------------------------------------
(* Death events *)

\* dict.get(key): None when the key is absent
Get(d, k) == IF k \in DOMAIN d THEN Some(d[k]) ELSE None

\* event.position.get(k) if event.position else None (an empty dict is falsy)
PosOf(position, k) ==
    IF position # None /\ position[1] # << >> THEN Get(position[1], k) ELSE None

\* event.time or datetime.utcnow().isoformat() (an empty string is falsy)
WhenOf(time, now) == IF time # None /\ time[1] # "" THEN time[1] ELSE now

\* DeathEventIn: instance_id is Field(..., min_length=1)
DeathEventIn_valid(event) == event.instance_id # ""

\* INSERT OR REPLACE against UNIQUE(instance_id): the conflicting row is
\* deleted, then the new row is inserted
InsertOrUpdateInPlace(rows, row) ==
    IF \E r \in rows : r.instance_id = row.instance_id
    THEN LET kept == CHOOSE r \in rows : r.instance_id = row.instance_id
         IN (rows \ {kept}) \cup {[row EXCEPT !.id = kept.id]}
    ELSE rows \cup {row}
InsertOrIgnore(rows, row) ==
    IF \E r \in rows : r.instance_id = row.instance_id THEN rows ELSE rows \cup {row}
InsertOrReplace(rows, row) ==
    {r \in rows : r.instance_id # row.instance_id /\ r.id # row.id} \cup {row}

DeathRow(id, event, now) ==
    [id |-> id, instance_id |-> event.instance_id, attacker |-> event.attacker,
     victim |-> event.victim, cause |-> event.cause,
     pos_x |-> PosOf(event.position, "x"),
     pos_y |-> PosOf(event.position, "y"),
     pos_z |-> PosOf(event.position, "z"),
     time |-> WhenOf(event.time, now)]

post_death(event, now) ==
    /\ IF ~DeathEventIn_valid(event)
       THEN /\ last' = Response("death", event, 422, "validation")
            /\ UNCHANGED <<deaths, death_seq, lastDeath>>
       ELSE LET id == NextRowid(death_seq, deaths) IN
            /\ deaths' = InsertOrReplace(deaths, DeathRow(id, event, now))
            /\ death_seq' = id
            /\ last' = Response("death", event, 200, event.instance_id)
            /\ lastDeath' =
                  [i \in DOMAIN lastDeath \cup {event.instance_id} |->
                      IF i = event.instance_id
                      THEN [event |-> event, now |-> now]
                      ELSE lastDeath[i]]
    /\ UNCHANGED <<commands, cmd_seq, mod_actions, mod_seq, player_states, queueHist>>

\* SELECT * FROM deaths ORDER BY id DESC LIMIT ? OFFSET ?
DeathsPage(rows, offset, limit) == Limit(Offset(OrderByIdDesc(rows), offset), limit)

get_deaths(offset, limit) ==
    /\ last' = Response("deaths", <<offset, limit>>, 200, DeathsPage(deaths, offset, limit))
    /\ UNCHANGED <<db, queueHist, lastDeath>>

get_deaths_by_player(player, offset, limit) ==
    /\ last' = Response("deaths_by_player", <<player, offset, limit>>, 200,
                  DeathsPage({r \in deaths : r.victim = player \/ r.attacker = Some(player)},
                             offset, limit))
    /\ UNCHANGED <<db, queueHist, lastDeath>>

get_death_instance(instance_id) ==
    /\ LET found == {r \in deaths : r.instance_id = instance_id} IN
       IF found = {}
       THEN last' = Response("death_instance", instance_id, 404, "not found")
       ELSE last' = Response("death_instance", instance_id, 200, CHOOSE r \in found : TRUE)
    /\ UNCHANGED <<db, queueHist, lastDeath>>

----------------------------------------------------------------------------
(* Moderation log *)

ModActionIn_valid(action) == Has(action, "action") /\ Has(action, "player")

post_mod_action(token, action, now) ==
    /\ IF ~require_admin(token)
       THEN /\ last' = GatedResponse("mod_action", token, action, 401, "unauthorized")
            /\ UNCHANGED <<mod_actions, mod_seq>>
       ELSE IF ~ModActionIn_valid(action)
       THEN /\ last' = GatedResponse("mod_action", token, action, 422, "validation")
            /\ UNCHANGED <<mod_actions, mod_seq>>
       ELSE LET id == NextRowid(mod_seq, mod_actions) IN
            /\ mod_actions' = mod_actions \cup
                  {[id |-> id, time |-> now, action |-> action.action,
                    player |-> action.player,
                    reason |-> Get(action, "reason"),
                    extra_json |-> Get(action, "extra")]}
            /\ mod_seq' = id
            /\ last' = GatedResponse("mod_action", token, action, 200, "ok")
    /\ UNCHANGED <<commands, cmd_seq, deaths, death_seq, player_states, queueHist, lastDeath>>

list_mod_actions(token, offset, limit) ==
    /\ IF ~require_admin(token)
       THEN last' = GatedResponse("mod_actions", token, <<offset, limit>>, 401, "unauthorized")
       ELSE last' = GatedResponse("mod_actions", token, <<offset, limit>>, 200,
                       Limit(Offset(OrderByIdDesc(mod_actions), offset), limit))
    /\ UNCHANGED <<db, queueHist, lastDeath>>

----------------------------------------------------------------------------
(* Player states *)

\* bool(body.banned) for a value of type bool | int, given as <<type, value>>
Truthy(v) == IF v[1] = "bool" THEN v[2] ELSE v[2] # 0

PlayerStateIn_valid(body) == Has(body, "player")

\* a field of the request body, or the default the model class declares
Field(body, k, default) == IF Has(body, k) THEN body[k] ELSE default

\* INSERT ... ON CONFLICT(player) DO UPDATE SET strikes, banned, vestige, updated
UpsertKeepVestige(rows, row) ==
    {r \in rows : r.player # row.player} \cup
    {[row EXCEPT !.vestige =
         IF \E r \in rows : r.player = row.player
         THEN (CHOOSE r \in rows : r.player = row.player).vestige
         ELSE row.vestige]}
Upsert(rows, row) == {r \in rows : r.player # row.player} \cup {row}

update_player_state(body, now) ==
    /\ IF ~PlayerStateIn_valid(body)
       THEN /\ last' = Response("player_state", body, 422, "validation")
            /\ UNCHANGED player_states
       ELSE /\ player_states' = Upsert(player_states,
                  [player |-> body.player,
                   strikes |-> Field(body, "strikes", 0),
                   banned |-> IF Truthy(Field(body, "banned", <<"int", 0>>)) THEN 1 ELSE 0,
                   vestige |-> Field(body, "vestige", 0),
                   updated |-> now])
            /\ last' = Response("player_state", body, 200, "ok")
    /\ UNCHANGED <<commands, cmd_seq, deaths, death_seq, mod_actions, mod_seq,
                   queueHist, lastDeath>>

get_player_state(player) ==
    /\ LET found == {r \in player_states : r.player = player} IN
       IF found = {}
       THEN last' = Response("get_player_state", player, 200,
                       [player |-> player, strikes |-> 0, banned |-> 0, vestige |-> 0])
       ELSE last' = Response("get_player_state", player, 200, CHOOSE r \in found : TRUE)
    /\ UNCHANGED <<db, queueHist, lastDeath>>

----------------------------------------------------------------------------
(* Specification of the command queue *)

Init ==
    /\ commands = {}
    /\ cmd_seq = 0
    /\ deaths = {}
    /\ death_seq = 0
    /\ mod_actions = {}
    /\ mod_seq = 0
    /\ player_states = {}
    /\ last = Response("startup", None, 200, "ok")
    /\ issued = {}
    /\ acked = {}
    /\ retired = {}
    /\ lastDeath = << >>
    /\ lastUpsert = << >>
    /\ ingestOrder = << >>
    /\ agentSeen = {}
    /\ batch = {}
    /\ delivered = {}

Tokens == {ADMIN_TOKEN, "letmein"}
Clock == {"t1", "t2"}
StrikeBodies == {[player |-> "alice"], << >>}
RestoreBodies == {[player |-> "alice", amount |-> 5], [player |-> "alice"]}
Limits == {-1, 0, 2, 25}
Faults == {"none", "execute", "commit"}
AckIds == {ids \in SUBSET (1 .. (MaxCmdId + 1)) : Cardinality(ids) <= 2}

QRestore == (cmd_seq < MaxCmdId /\ \E t \in Tokens, b \in RestoreBodies, f \in Faults : command_restore(t, b, "t1", f)) /\ UNCHANGED outside
QStrike == (cmd_seq < MaxCmdId /\ \E t \in Tokens, b \in StrikeBodies, f \in Faults : command_strike(t, b, "t1", f)) /\ UNCHANGED outside
QBan == (cmd_seq < MaxCmdId /\ \E t \in Tokens, b \in StrikeBodies, f \in Faults : command_ban(t, b, "t1", f)) /\ UNCHANGED outside
QUnban == (cmd_seq < MaxCmdId /\ \E t \in Tokens, b \in StrikeBodies, f \in Faults : command_unban(t, b, "t1", f)) /\ UNCHANGED outside
QKick == (cmd_seq < MaxCmdId /\ \E t \in Tokens, b \in StrikeBodies, f \in Faults : command_kick(t, b, "t1", f)) /\ UNCHANGED outside
QPoll == (\E n \in Limits : poll_commands(n)) /\ UNCHANGED outside
QAck == (\E ids \in AckIds : ack_commands(ids)) /\ UNCHANGED outside
QStartup == (on_startup) /\ UNCHANGED outside

QueueNext == QRestore \/ QStrike \/ QBan \/ QUnban \/ QKick \/ QPoll \/ QAck \/ QStartup

QueueSpec == Init /\ [][QueueNext]_vars

----------------------------------------------------------------------------
(* Properties of the command queue *)

Kinds == {"restore", "strike", "ban", "unban", "kick"}
LiveIds == {r.id : r \in commands}
PolledIds == {last.out[i].id : i \in DOMAIN last.out}

\* C1: every step that adds a command gives it an id greater than every id
\* assigned before, acknowledged ones included, and the live commands never
\* share an id.
C1_IdsUniqueIncreasing ==
    [][ /\ \A r \in commands' \ commands :
              \A i \in issued \cup LiveIds : r.id > i
        /\ \A r1, r2 \in commands' : r1.id = r2.id => r1 = r2 ]_vars

\* an enqueue has just committed after an earlier id was acknowledged away
C1_Witness ==
    /\ last.op \in Kinds /\ last.status = 200
    /\ issued \ LiveIds # {}
    /\ \E r \in commands : r.id = cmd_seq /\ \A i \in issued \ {r.id} : i < r.id

\* C2: a live command is removed only by a step that is an acknowledge naming
\* its id; every other request and a restart keep it, and whenever the live
\* set changes every live command is in the result of a poll that asks for
\* enough items (the live set starts empty).
C2_OnlyAckRemoves ==
    [][ /\ \A r \in commands :
              r \notin commands' => (last'.op = "ack" /\ r.id \in last'.req)
        /\ commands' # commands =>
              LET page == PollResults(commands', 25)
              IN {r.id : r \in commands'} = {page[i].id : i \in DOMAIN page} ]_vars

\* a command is still live after a poll returned it, with an older command
\* acknowledged and the other three tables written
C2_Witness ==
    /\ last.op = "poll" /\ Len(last.out) >= 1
    /\ PolledIds \subseteq LiveIds
    /\ retired # {}
    /\ deaths # {} /\ mod_actions # {} /\ player_states # {}

\* C3: the result of a poll is a gap-free prefix of the live commands in
\* ascending id order, and is all of them when at most maxItems are live.
C3_PollPrefix ==
    last.op = "poll" =>
        /\ \A i, j \in DOMAIN last.out : i < j => last.out[i].id < last.out[j].id
        /\ \A i \in DOMAIN last.out :
              \E r \in commands :
                  /\ r.id = last.out[i].id
                  /\ r.command = last.out[i].command
                  /\ json_dumps(last.out[i].payload) = r.payload_json
        /\ \A i \in DOMAIN last.out : \A r \in commands :
              r.id < last.out[i].id => \E j \in 1 .. (i - 1) : last.out[j].id = r.id
        /\ Cardinality(commands) <= last.req => PolledIds = LiveIds

\* a poll for two items answered with the two oldest of three live commands
C3_Witness ==
    /\ last.op = "poll" /\ last.req = 2
    /\ Cardinality(commands) = 3
    /\ PolledIds = {1, 2}

\* C4: a poll returns at most maxItems commands, which for a zero or negative
\* maxItems is no command at all.
C4_AtMostMaxItems ==
    last.op = "poll" =>
        IF last.req >= 0 THEN Len(last.out) <= last.req ELSE Len(last.out) = 0

\* C5: a poll changes nothing stored, and a poll that directly follows a poll
\* with the same maxItems returns the identical sequence.
C5_PollPure ==
    [][ last'.op = "poll" =>
          /\ UNCHANGED db
          /\ (last.op = "poll" /\ last.req = last'.req) => last'.out = last.out ]_vars

\* a poll has returned two commands and both are still stored
C5_Witness ==
    /\ last.op = "poll" /\ Len(last.out) = 2
    /\ PolledIds \subseteq LiveIds

\* C6, as claimed: no poll returns an id that a completed acknowledge named.
C6_AckedNeverPolled ==
    last.op = "poll" => PolledIds \cap acked = {}

\* C6, amended: no poll returns an id that a completed acknowledge named
\* when that id had already been assigned to a command.
C6_RetiredNeverPolled ==
    last.op = "poll" => PolledIds \cap retired = {}

\* a poll returns a command enqueued after another one was acknowledged
C6_Witness ==
    /\ last.op = "poll" /\ Len(last.out) >= 1
    /\ retired # {}
    /\ \E i \in PolledIds : \E j \in retired : j < i

\* C8, as claimed: every acknowledge succeeds and the live ids are the ids
\* assigned so far minus the union of the ids acknowledged so far.
C8_LiveIsIssuedMinusAcked ==
    /\ last.op = "ack" => last.status = 200
    /\ LiveIds = issued \ acked

\* C8, amended: every acknowledge succeeds and the live ids are the ids
\* assigned so far minus the ids acknowledged after they were assigned.
C8_LiveIsIssuedMinusRetired ==
    /\ last.op = "ack" => last.status = 200
    /\ LiveIds = issued \ retired

\* an acknowledge of ids all acknowledged before leaves a later command live
C8_Witness ==
    /\ last.op = "ack" /\ last.req # {}
    /\ last.req \subseteq retired
    /\ Cardinality(retired) > Cardinality(last.req)
    /\ commands # {}

\* C15: an enqueue request either answers 200 and adds exactly one command,
\* built from the request, or answers an error and leaves the command table
\* and its id counter as they were; a store fault gives the error.
C15_EnqueueAtomic ==
    [][ last'.op \in Kinds =>
          IF last'.status = 200
          THEN /\ Cardinality(commands' \ commands) = 1
               /\ commands \subseteq commands'
               /\ \A r \in commands' \ commands :
                     /\ r.command = last'.op
                     /\ r.payload_json = json_dumps(last'.req)
                     /\ cmd_seq' = r.id
          ELSE /\ last'.status \in {401, 422, 500}
               /\ UNCHANGED <<commands, cmd_seq>> ]_vars

\* an enqueue has just failed in the store with two commands live: none
\* was added and the next id is still free
C15_Witness ==
    /\ last.op \in Kinds /\ last.status = 500
    /\ Cardinality(commands) = 2 /\ cmd_seq = 2

\* C16: in every poll the command with the smaller id comes first; two
\* commands returned by a poll and by the poll served right after it keep
\* their relative order; and a poll returns no command while an older one
\* (smaller id) is neither in the same result before it nor acknowledged.
C16_DeliveryFollowsEnqueueOrder ==
    [][ last'.op = "poll" =>
          /\ \A i, j \in DOMAIN last'.out :
                i < j => last'.out[i].id < last'.out[j].id
          /\ last.op = "poll" =>
                \A i, j \in DOMAIN last.out : \A k, l \in DOMAIN last'.out :
                    ( /\ last.out[i].id = last'.out[k].id
                      /\ last.out[j].id = last'.out[l].id
                      /\ i < j ) => k < l
          /\ \A k \in DOMAIN last'.out : \A older \in issued' :
                older < last'.out[k].id =>
                    \/ \E l \in 1 .. (k - 1) : last'.out[l].id = older
                    \/ older \in retired' ]_vars

\* a poll returns commands 2 and 3 after command 1 was acknowledged
C16_Witness ==
    /\ last.op = "poll" /\ Len(last.out) = 2
    /\ last.out[1].id = 2 /\ last.out[2].id = 3
    /\ 1 \in retired

----------------------------------------------------------------------------
(* Specification of the death-event store *)

Event(i, a, c, p, t) ==
    [instance_id |-> i, attacker |-> a, victim |-> "bob", cause |-> c,
     position |-> p, time |-> t]

DeathEvents ==
    { Event("e1", None, "fall", None, None),
      Event("e1", Some("alice"), "fire", Some([x |-> 1, y |-> 2, z |-> 3]), Some("t0")),
      Event("e1", None, "fire", Some([x |-> 1]), Some("")),
      Event("e2", Some("alice"), "fall", Some(<< >>), Some("t0")),
      Event("e2", None, "fall", None, None),
      Event("", None, "fall", None, Some("t0")) }

\* ingestOrder: the instanceIds recorded so far, latest ingestion first
DRecord ==
    /\ death_seq < MaxDeathId
    /\ \E e \in DeathEvents, w \in Clock :
          /\ post_death(e, w)
          /\ ingestOrder' =
                IF DeathEventIn_valid(e)
                THEN <<e.instance_id>> \o
                     SelectSeq(ingestOrder, LAMBDA i : i # e.instance_id)
                ELSE ingestOrder
    /\ UNCHANGED <<lastUpsert, agentSeen, batch, delivered>>
DList == (\E o \in {0, 1}, n \in {-1, 1, 50} : get_deaths(o, n)) /\ UNCHANGED outside
DByPlayer == (\E p \in {"alice", "bob"} : get_deaths_by_player(p, 0, 50)) /\ UNCHANGED outside
DInstance == (\E i \in {"e1", "e2"} : get_death_instance(i)) /\ UNCHANGED outside
DStartup == (on_startup) /\ UNCHANGED outside

DeathNext == DRecord \/ DList \/ DByPlayer \/ DInstance \/ DStartup

DeathSpec == Init /\ [][DeathNext]_vars

----------------------------------------------------------------------------
(* Properties of the death-event store *)

\* the row a recorded call asks for: its fields as sent, the three
\* coordinates of its position (absent ones empty), and its time when it
\* gives one, else the ingestion time
CarriesCall(r, call) ==
    /\ r.attacker = call.event.attacker
    /\ r.victim = call.event.victim
    /\ r.cause = call.event.cause
    /\ \A k \in {"x", "y", "z"} :
          LET stored == IF k = "x" THEN r.pos_x ELSE IF k = "y" THEN r.pos_y ELSE r.pos_z
          IN IF call.event.position = None
             THEN stored = None
             ELSE stored = Get(call.event.position[1], k)
    /\ r.time = IF call.event.time \in {None, Some("")}
                THEN call.now ELSE call.event.time[1]

\* C9: after every step the store holds exactly one row for each instanceId
\* ever recorded, carrying the fields of the latest call for it, and a step
\* that records one instanceId leaves the rows of the others as they were.
C9_OnePerInstanceLastWins ==
    [][ /\ \A r1, r2 \in deaths' : r1.instance_id = r2.instance_id => r1 = r2
        /\ {r.instance_id : r \in deaths'} = DOMAIN lastDeath'
        /\ \A r \in deaths' : CarriesCall(r, lastDeath'[r.instance_id])
        /\ (last'.op = "death" /\ last'.status = 200) =>
              \A r \in deaths : r.instance_id # last'.req.instance_id => r \in deaths' ]_vars

\* e1 was recorded, then e2, then e1 again with other fields: two rows, the
\* row of e1 built by the third call
C9_Witness ==
    /\ last.op = "death" /\ last.status = 200 /\ last.req.instance_id = "e1"
    /\ last.req.cause = "fire" /\ last.req.attacker = Some("alice")
    /\ Cardinality(deaths) = 2
    /\ \E r \in deaths : r.instance_id = "e1" /\ r.id = 3 /\ r.cause = "fire"
    /\ \E r \in deaths : r.instance_id = "e2" /\ r.id = 2

\* C10: recording again the event just recorded, with the same explicit
\* timestamp, leaves the death-event store as it was (row ids included).
C10_RetryLeavesStoreIdentical ==
    [][ ( /\ last.op = "death" /\ last.status = 200
          /\ last'.op = "death" /\ last'.req = last.req
          /\ last.req.time \notin {None, Some("")} )
        => deaths' = deaths ]_vars

\* C19: no stored death row has an id above the last id assigned; a successful
\* recording of an instanceId that is already stored gives the replacing row
\* an id above every id assigned before, so that event heads the most-recent
\* listing (offset 0); and after every recording the listing names the
\* instanceIds in the order of their latest ingestion, latest first.
C19_ReplaceMovesToFront ==
    [][ /\ \A r \in deaths : r.id <= death_seq
        /\ (last'.op = "death" /\ last'.status = 200) =>
              LET listing == DeathsPage(deaths', 0, 50) IN
              /\ (\E r \in deaths : r.instance_id = last'.req.instance_id) =>
                    /\ \A r \in deaths' :
                           r.instance_id = last'.req.instance_id => r.id > death_seq
                    /\ listing[1].instance_id = last'.req.instance_id
              /\ [i \in DOMAIN listing |-> listing[i].instance_id] = ingestOrder' ]_vars

\* e1 was recorded, then e2, then e1 again: e1 is listed first with id 3
C19_Witness ==
    /\ last.op = "death" /\ last.status = 200 /\ last.req.instance_id = "e1"
    /\ ingestOrder = <<"e1", "e2">>
    /\ LET listing == DeathsPage(deaths, 0, 50) IN
       /\ Len(listing) = 2
       /\ listing[1].instance_id = "e1" /\ listing[1].id = 3
       /\ listing[2].instance_id = "e2" /\ listing[2].id = 2

----------------------------------------------------------------------------
(* Specification of the queue with its agent: administrators enqueue, the
   agent polls with maxItems >= 1, acknowledges what its polls returned and
   may repeat old acknowledges.
     batch     - ids returned to the agent and not yet acknowledged by it
     agentSeen - every id a poll ever returned to the agent
     delivered - ids of commands returned by a poll since they were enqueued *)

AgentLimits == {1, 2}

AgentEnqueue ==
    /\ cmd_seq < MaxAgentCmdId
    /\ \E k \in {"kick", "ban"} :
          StrikeEndpoint(k, ADMIN_TOKEN, [player |-> "alice"], "t1", "none")
    /\ delivered' = delivered \ {r.id : r \in commands' \ commands}
    /\ UNCHANGED <<lastUpsert, ingestOrder, agentSeen, batch>>

AgentPoll ==
    /\ \E n \in AgentLimits :
          /\ poll_commands(n)
          /\ LET got == {last'.out[i].id : i \in DOMAIN last'.out} IN
             /\ batch' = batch \cup got
             /\ agentSeen' = agentSeen \cup got
             /\ delivered' = delivered \cup got
    /\ UNCHANGED <<lastUpsert, ingestOrder>>

AgentAck ==
    /\ batch # {}
    /\ ack_commands(batch)
    /\ batch' = {}
    /\ UNCHANGED <<lastUpsert, ingestOrder, agentSeen, delivered>>

AgentRetry ==
    /\ \E ids \in SUBSET agentSeen : ids # {} /\ ack_commands(ids)
    /\ UNCHANGED outside

AgentStartup == (on_startup) /\ UNCHANGED outside

AgentNext == AgentEnqueue \/ AgentPoll \/ AgentAck \/ AgentRetry \/ AgentStartup

\* the agent keeps polling and keeps acknowledging what it was handed
AgentSpec ==
    Init /\ [][AgentNext]_vars /\ WF_vars(AgentPoll) /\ WF_vars(AgentAck)

----------------------------------------------------------------------------
(* Properties of the queue with its agent *)

\* the first n of a set of ids
FirstIds(ids, n) == {i \in ids : Cardinality({j \in ids : j < i}) < n}

\* C17: with an agent that keeps polling (maxItems >= 1) and acknowledging
\* what it was handed, every live command is eventually returned by a poll
\* and removed from the live set, whatever enqueues happen meanwhile, and
\* once the enqueues have stopped the live set becomes and stays empty; as
\* long as nothing was ever acknowledged, a poll for n returns exactly the
\* first n commands enqueued and no command beyond the largest page asked
\* for has been delivered.
C17_DrainsUnderFairness ==
    /\ \A i \in 1 .. (MaxAgentCmdId + 1) :
          (i \in LiveIds) ~> (i \in agentSeen /\ i \notin LiveIds)
    /\ <>[](LiveIds = {})
    /\ [][ acked' = {} =>
             /\ last'.op = "poll" => PolledIds' = FirstIds(issued', last'.req)
             /\ delivered' \subseteq FirstIds(issued', SetMax(AgentLimits)) ]_vars

\* three commands were enqueued, all were handed to the agent, and its
\* acknowledge has emptied the live set
C17_Witness ==
    /\ issued = 1 .. 3 /\ agentSeen = 1 .. 3
    /\ last.op = "ack" /\ LiveIds = {} /\ batch = {}

\* C18: every command that a step removes from the live set had been
\* returned by a poll since it was enqueued, also when the step is a repeated
\* acknowledge of ids acknowledged before; and a command that was never
\* returned by a poll since it was enqueued is still live.
C18_NoCommandLostUndelivered ==
    [][ /\ \A r \in commands \ commands' : r.id \in delivered
        /\ \A i \in issued' : i \notin delivered' => i \in LiveIds' ]_vars

\* the agent repeats the acknowledge of command 1, removed before, while
\* command 2 was not yet handed out: command 2 stays live
C18_Witness ==
    /\ last.op = "ack" /\ last.req = {1} /\ batch = {1}
    /\ 1 \in retired /\ 1 \notin LiveIds
    /\ 2 \in LiveIds /\ 2 \notin delivered

----------------------------------------------------------------------------
(* Specification of the player states and of the requests naming a player *)

PlayerSpecBodies ==
    { [player |-> "carol", strikes |-> 2, banned |-> <<"bool", FALSE>>, vestige |-> 0],
      [player |-> "carol", strikes |-> 3, banned |-> <<"bool", TRUE>>, vestige |-> 5],
      [player |-> "carol", strikes |-> -1, banned |-> <<"int", 2>>, vestige |-> 0],
      [player |-> "dave", vestige |-> 7],
      [player |-> "", strikes |-> 1, banned |-> <<"int", 0>>, vestige |-> 0],
      [strikes |-> 1] }
PlayerNames == {"carol", "dave", "erin", ""}

PUpsert ==
    \E b \in PlayerSpecBodies, w \in Clock :
        /\ update_player_state(b, w)
        /\ lastUpsert' =
              IF PlayerStateIn_valid(b)
              THEN [p \in DOMAIN lastUpsert \cup {b.player} |->
                       IF p = b.player THEN b ELSE lastUpsert[p]]
              ELSE lastUpsert
        /\ UNCHANGED <<ingestOrder, agentSeen, batch, delivered>>
PGetState == (\E p \in PlayerNames : get_player_state(p)) /\ UNCHANGED outside
PKick == (cmd_seq < MaxFullCmdId /\ \E t \in Tokens, b \in {[player |-> ""], << >>} : command_kick(t, b, "t1", "none")) /\ UNCHANGED outside
PModAction == (mod_seq < MaxModId /\ \E t \in Tokens : post_mod_action(t, [action |-> "warn", player |-> ""], "t1")) /\ UNCHANGED outside
PStartup == on_startup /\ UNCHANGED outside

PlayerNext == PUpsert \/ PGetState \/ PKick \/ PModAction \/ PStartup

PlayerSpec == Init /\ [][PlayerNext]_vars

----------------------------------------------------------------------------
(* Properties of the player states *)

\* C11: getPlayerState(p) answers with the strikes, banned and vestige of the
\* latest accepted upsert for p (banned as 1 for a true value and 0 for a
\* false one), with 0, 0, 0 when p was never upserted; and an upsert leaves
\* the rows of the other players as they were.
C11_GetReturnsLatestUpsert ==
    [][ /\ last'.op = "get_player_state" =>
              IF last'.req \in DOMAIN lastUpsert'
              THEN LET b == lastUpsert'[last'.req] IN
                   /\ last'.out.strikes = Field(b, "strikes", 0)
                   /\ (last'.out.banned = 1) = Truthy(Field(b, "banned", <<"int", 0>>))
                   /\ last'.out.banned \in {0, 1}
                   /\ last'.out.vestige = Field(b, "vestige", 0)
              ELSE /\ last'.out.strikes = 0
                   /\ last'.out.banned = 0
                   /\ last'.out.vestige = 0
        /\ (last'.op = "player_state" /\ last'.status = 200) =>
              \A r \in player_states :
                  r.player # last'.req.player => r \in player_states' ]_vars

\* carol was upserted twice and dave once; the state read for carol is that
\* of her second upsert
C11_Witness ==
    /\ last.op = "get_player_state" /\ last.req = "carol"
    /\ last.out.strikes = 3 /\ last.out.banned = 1 /\ last.out.vestige = 5
    /\ \E r \in player_states : r.player = "dave"
    /\ \E r \in player_states : r.player = "carol" /\ r.updated = "t2"

\* C12: a request whose player identifier is empty is refused and changes no
\* table.
C12_EmptyPlayerRejected ==
    [][ ( /\ last'.op \in Kinds \cup {"player_state", "mod_action"}
          /\ Has(last'.req, "player")
          /\ last'.req.player = "" )
        => (last'.status # 200 /\ UNCHANGED db) ]_vars

\* C13: every stored player state has strikes of at least 0.
C13_StrikesNonNegative ==
    \A r \in player_states : r.strikes >= 0

----------------------------------------------------------------------------
(* Specification of the whole service, on small inputs *)

FullBodies == {[player |-> "alice"]}
FullEvents ==
    { Event("e1", None, "fall", None, None),
      Event("e1", None, "fire", None, Some("t0")) }
ModActions == {[action |-> "ban", player |-> "alice", reason |-> "grief"],
               [action |-> "ban"]}
PlayerBodies ==
    {[player |-> "alice", strikes |-> 2, banned |-> <<"bool", FALSE>>, vestige |-> 0],
     [player |-> "alice", strikes |-> 3, banned |-> <<"int", 2>>, vestige |-> 5]}

FRestore == (cmd_seq < MaxFullCmdId /\ \E t \in Tokens : command_restore(t, [player |-> "alice", amount |-> 5], "t1", "none")) /\ UNCHANGED outside
FStrike == (cmd_seq < MaxFullCmdId /\ \E t \in Tokens, b \in FullBodies : command_strike(t, b, "t1", "none")) /\ UNCHANGED outside
FBan == (cmd_seq < MaxFullCmdId /\ \E t \in Tokens, b \in FullBodies : command_ban(t, b, "t1", "none")) /\ UNCHANGED outside
FUnban == (cmd_seq < MaxFullCmdId /\ \E t \in Tokens, b \in FullBodies : command_unban(t, b, "t1", "none")) /\ UNCHANGED outside
FKick == (cmd_seq < MaxFullCmdId /\ \E t \in Tokens, b \in FullBodies : command_kick(t, b, "t1", "none")) /\ UNCHANGED outside
FPoll == (\E n \in {1, 25} : poll_commands(n)) /\ UNCHANGED outside
FAck == (\E ids \in {{}, {1}, {2, MaxFullCmdId + 1}} : ack_commands(ids)) /\ UNCHANGED outside
FRecord == (death_seq < MaxFullDeathId /\ \E e \in FullEvents : post_death(e, "t1")) /\ UNCHANGED outside
FList == (get_deaths(0, 50)) /\ UNCHANGED outside
FByPlayer == (get_deaths_by_player("bob", 0, 50)) /\ UNCHANGED outside
FInstance == (get_death_instance("e1")) /\ UNCHANGED outside
FModAction == (mod_seq < MaxModId /\ \E t \in Tokens, a \in ModActions : post_mod_action(t, a, "t1")) /\ UNCHANGED outside
FModList == (\E t \in Tokens : list_mod_actions(t, 0, 50)) /\ UNCHANGED outside
FUpsert == (\E b \in PlayerBodies : update_player_state(b, "t1")) /\ UNCHANGED outside
FGetState == (get_player_state("alice")) /\ UNCHANGED outside
FStartup == (on_startup) /\ UNCHANGED outside

Next ==
    \/ FRestore \/ FStrike \/ FBan \/ FUnban \/ FKick \/ FPoll \/ FAck
    \/ FRecord \/ FList \/ FByPlayer \/ FInstance
    \/ FModAction \/ FModList \/ FUpsert \/ FGetState \/ FStartup

Spec == Init /\ [][Next]_vars

----------------------------------------------------------------------------
(* Properties checked on the whole service *)

\* C7: an acknowledge succeeds, removes exactly the live commands it names
\* (none when it names no live id or is empty) and changes no other table.
C7_AckFrame ==
    [][ last'.op = "ack" =>
          /\ last'.status = 200
          /\ commands' = {r \in commands : r.id \notin last'.req}
          /\ (last'.req \cap LiveIds = {}) => commands' = commands
          /\ UNCHANGED <<cmd_seq, deaths, death_seq, mod_actions, mod_seq,
                         player_states>> ]_vars

\* an acknowledge naming live id 2 and a never-assigned id removed 2 and
\* kept 1, with the other tables holding rows
C7_Witness ==
    /\ last.op = "ack" /\ last.req = {2, MaxFullCmdId + 1}
    /\ acked = last.req
    /\ LiveIds = {1} /\ issued = {1, 2}
    /\ deaths # {} /\ mod_actions # {} /\ player_states # {}

\* C14: an enqueue or moderation-action request whose token is not the
\* configured secret is answered 401 and leaves the command queue and the
\* moderation log as they were; a command row or a log row is added only by
\* such a request that carried the secret.
C14_GatedWrites ==
    [][ /\ (last'.op \in Kinds \cup {"mod_action"} /\ last'.token # ADMIN_TOKEN) =>
              /\ last'.status = 401
              /\ UNCHANGED <<commands, cmd_seq, mod_actions, mod_seq>>
        /\ \A r \in commands' \ commands :
              last'.op \in Kinds /\ last'.token = ADMIN_TOKEN /\ last'.status = 200
        /\ \A r \in mod_actions' \ mod_actions :
              last'.op = "mod_action" /\ last'.token = ADMIN_TOKEN /\ last'.status = 200 ]_vars

\* an enqueue with a wrong token has just been refused while the queue and
\* the moderation log hold rows written with the right one
C14_Witness ==
    /\ last.op \in Kinds /\ last.status = 401 /\ last.token # ADMIN_TOKEN
    /\ commands # {} /\ mod_actions # {}

====
